---- MODULE Spec2Model ----
(***************************************************************************)
(* A model of calibre-utils' CalibreBookHandler (src/main.py): the catalog *)
(* listing parser, the fuzzy set matcher, the series/noise stripper, the   *)
(* title/author extractor and the catalog resolver.                        *)
(*                                                                         *)
(* A Python str is a sequence of one-character strings, "" is << >>; its   *)
(* characters are the code points up to 255.  A Python dict is a function  *)
(* whose DOMAIN is the set of its keys.  A call that raises is a result    *)
(* whose exc field names the exception.  A local variable of a method is a *)
(* parameter of the operator that models the rest of the method.           *)
(***************************************************************************)
EXTENDS Integers, Sequences, FiniteSets, TLC

VARIABLES pc, listing, books, book_file, call, frame, steps

vars == <<pc, listing, books, book_file, call, frame, steps>>

-----------------------------------------------------------------------------
(* Character classes of the regular expressions in src/main.py.            *)

DigitChars == <<"0","1","2","3","4","5","6","7","8","9">>

Digit == {DigitChars[i] : i \in 1..10}

Lower == {"a","b","c","d","e","f","g","h","i","j","k","l","m",
          "n","o","p","q","r","s","t","u","v","w","x","y","z"}

Upper == {"A","B","C","D","E","F","G","H","I","J","K","L","M",
          "N","O","P","Q","R","S","T","U","V","W","X","Y","Z"}

AlNum == Digit \cup Lower \cup Upper

\* The characters past ASCII that str.isalnum() holds of, among those a
\* string of the model can hold (code points up to 255)
Latin1Word == {"ª","²","³","µ","¹","º","¼","½","¾","À","Á","Â","Ã",
               "Ä","Å","Æ","Ç","È","É","Ê","Ë","Ì","Í","Î","Ï","Ð",
               "Ñ","Ò","Ó","Ô","Õ","Ö","Ø","Ù","Ú","Û","Ü","Ý","Þ",
               "ß","à","á","â","ã","ä","å","æ","ç","è","é","ê","ë",
               "ì","í","î","ï","ð","ñ","ò","ó","ô","õ","ö","ø","ù",
               "ú","û","ü","ý","þ","ÿ"}

\* \w of a str pattern
WordChar == AlNum \cup {"_"} \cup Latin1Word

\* [\w;,&]
EntryEndClass == WordChar \cup {";", ",", "&"}

\* [a-zA-Z0-9 -]
SeriesClass == AlNum \cup {" ", "-"}

\* [:_. ,] of is_subset
SubsetSeps == {":", "_", ".", " ", ","}

\* [:_-] of test_title_author_sets
TitlePunct == {":", "_", "-"}

\* [ .] of test_title_author_sets
AuthorSeps == {" ", "."}

Space == {" "}

\* What a bare str.strip() drops, str.isspace(): blank, tab, newline, return,
\* form feed, and the code points 11, 28 to 31, 133 and 160
Whitespace == {" ", "\t", "\n", "\r", "\f", "", "", "", "", "", "", " "}

\* What int() drops around a literal: blank, tab, newline, return, form
\* feed, and the code points 11, 133 and 160
IntSpace == {" ", "\t", "\n", "\r", "\f", "", "", " "}

-----------------------------------------------------------------------------
(* str and re primitives.                                                  *)

Min(S) == CHOOSE m \in S : \A n \in S : m <= n

Max(S) == CHOOSE m \in S : \A n \in S : m >= n

\* The least element of a set of indices, 0 when there is none
FirstHit(hits) == IF hits = {} THEN 0 ELSE Min(hits)

LastHit(hits) == IF hits = {} THEN 0 ELSE Max(hits)

\* s[:n]
Take(s, n) == SubSeq(s, 1, n)

\* s[n:]
Drop(s, n) == SubSeq(s, n + 1, Len(s))

\* s.startswith(p, i - 1)
StartsWithAt(s, p, i) ==
    /\ i + Len(p) - 1 <= Len(s)
    /\ SubSeq(s, i, i + Len(p) - 1) = p

\* p in s
Contains(s, p) == \E i \in 1..(Len(s) - Len(p) + 1) : StartsWithAt(s, p, i)

\* s.find(p) + 1
Find(s, p) == FirstHit({i \in 1..(Len(s) - Len(p) + 1) : StartsWithAt(s, p, i)})

\* s.rfind(p) + 1
RFind(s, p) == LastHit({i \in 1..(Len(s) - Len(p) + 1) : StartsWithAt(s, p, i)})

\* The length of the longest run of characters of C that starts at s[i]:
\* what the greedy [C]* matches there.
RunLen(s, i, C) ==
    Min({j \in i..(Len(s) + 1) : j = Len(s) + 1 \/ s[j] \notin C}) - i

\* s.lstrip(C)
LStrip(s, C) == Drop(s, RunLen(s, 1, C))

\* s.rstrip(C)
RStrip(s, C) ==
    Take(s, Min({j \in 0..Len(s) : \A m \in (j + 1)..Len(s) : s[m] \in C}))

\* s.strip(C)
Strip(s, C) == RStrip(LStrip(s, C), C)

\* `$` matches at the end of s and before a "\n" that ends s: s up to the
\* place where a match that ends in a character other than "\n" can end
BeforeNewline(s) ==
    IF Len(s) > 0 /\ s[Len(s)] = "\n" THEN Take(s, Len(s) - 1) ELSE s

\* re.sub(r'[C]+$', '', s), "\n" not being in C
SubAtEnd(s, C) == RStrip(BeforeNewline(s), C) \o Drop(s, Len(BeforeNewline(s)))

\* re.sub(r'[C]+', '', s)
RemoveChars(s, C) == SelectSeq(s, LAMBDA c : c \notin C)

\* re.split of s on runs of at least k characters of C: r'[C]+' is k = 1,
\* r'  +' is C = {" "}, k = 2.  Empty fields are kept, as re.split keeps
\* them.  start is where the current field starts, i the place looked at
\* and n the length of the run of C there.
RECURSIVE ReSplitFrom(_, _, _, _, _)
RECURSIVE ReSplitRun(_, _, _, _, _, _)
ReSplitFrom(s, C, k, start, i) ==
    IF i > Len(s)
    THEN << SubSeq(s, start, Len(s)) >>
    ELSE ReSplitRun(s, C, k, start, i, RunLen(s, i, C))

ReSplitRun(s, C, k, start, i, n) ==
    IF n >= k
    THEN << SubSeq(s, start, i - 1) >> \o ReSplitFrom(s, C, k, i + n, i + n)
    ELSE ReSplitFrom(s, C, k, start, i + (IF n = 0 THEN 1 ELSE n))

ReSplit(s, C, k) == ReSplitFrom(s, C, k, 1, 1)

\* set(...) of a list
ToSet(l) == {l[i] : i \in 1..Len(l)}

\* " ".join([a, b])
JoinSpace(a, b) == a \o <<" ">> \o b

\* The digits of a stripped int literal, past its sign
Unsigned(t) == IF Len(t) > 0 /\ t[1] \in {"+", "-"} THEN Drop(t, 1) ELSE t

IsDigits(d) ==
    /\ Len(d) > 0
    /\ d[1] \in Digit
    /\ d[Len(d)] \in Digit
    /\ \A i \in 1..Len(d) : d[i] \in Digit \cup {"_"}
    /\ \A i \in 1..(Len(d) - 1) : ~(d[i] = "_" /\ d[i + 1] = "_")

\* int(s): whether the literal is accepted (surrounding whitespace, one
\* sign, digits with single underscores between them) ...
IsIntLiteral(s) == IsDigits(Unsigned(Strip(s, IntSpace)))

DigitVal(c) == (CHOOSE n \in 1..10 : DigitChars[n] = c) - 1

RECURSIVE DigitsVal(_)
DigitsVal(d) ==
    IF Len(d) = 0 THEN 0
    ELSE 10 * DigitsVal(Take(d, Len(d) - 1)) + DigitVal(d[Len(d)])

SignedVal(t) ==
    (IF Len(t) > 0 /\ t[1] = "-" THEN -1 ELSE 1)
        * DigitsVal(RemoveChars(Unsigned(t), {"_"}))

\* ... and its value
IntVal(s) == SignedVal(Strip(s, IntSpace))

-----------------------------------------------------------------------------
(* Catalog Listing Parser.                                                 *)

STR_Fail == <<"F","a","i","l">>

STR_id == <<"i","d">>

STR_title == <<"t","i","t","l","e">>

\* re.search(r'^(Fail|id +title)', ent)
IsHeaderLine(ent) ==
    \/ StartsWithAt(ent, STR_Fail, 1)
    \/ /\ StartsWithAt(ent, STR_id, 1)
       /\ RunLen(ent, 3, Space) >= 1
       /\ StartsWithAt(ent, STR_title, 3 + RunLen(ent, 3, Space))

\* A match of r'^\d+ +' that has d digits: the match, "" if there is none
LeadingIdOf(in_entry, d, sp) ==
    IF d >= 1 /\ sp >= 1 THEN Take(in_entry, d + sp) ELSE << >>

LeadingIdDigits(in_entry, d) ==
    LeadingIdOf(in_entry, d, RunLen(in_entry, d + 1, Space))

\* next(iter(re.findall(r'^\d+ +', in_entry)), "")
LeadingId(in_entry) == LeadingIdDigits(in_entry, RunLen(in_entry, 1, Digit))

\* re.search(r'[\w;,&]+$', in_entry)
EndsWordLike(in_entry) ==
    /\ Len(BeforeNewline(in_entry)) > 0
    /\ in_entry[Len(BeforeNewline(in_entry))] \in EntryEndClass

\* if len(entry_parts) < 3 and re.search(...): entry_parts.append(
\* entry_parts[-1]); entry_parts[-2] = ""
ShiftRight(entry_parts, in_entry) ==
    IF Len(entry_parts) < 3 /\ EndsWordLike(in_entry)
    THEN [Append(entry_parts, entry_parts[Len(entry_parts)])
             EXCEPT ![Len(entry_parts)] = << >>]
    ELSE entry_parts

\* in_entry is the entry past id_str
EntryParts(id_str, in_entry) ==
    ShiftRight((IF id_str # << >> THEN << Strip(id_str, Whitespace) >> ELSE << >>)
                   \o ReSplit(in_entry, Space, 2),
               in_entry)

PartsAfterId(in_entry, id_str) ==
    EntryParts(id_str,
               IF id_str # << >> THEN Drop(in_entry, Len(id_str)) ELSE in_entry)

resolve_book_entry_parts(in_entry) == PartsAfterId(in_entry, LeadingId(in_entry))

keys == <<"id", "title", "author">>

\* dict(zip(keys, parts))
ZipKeys(parts) ==
    [k \in {keys[i] : i \in 1..(IF Len(parts) < 3 THEN Len(parts) ELSE 3)}
        |-> parts[CHOOSE i \in 1..3 : keys[i] = k]]

\* d.get(k, default)
Get(d, k, default) == IF k \in DOMAIN d THEN d[k] ELSE default

\* A str that stands where a dict is expected (db_entries_to_dict's
\* `return in_entries`).
RawStr(s) == [raw |-> s]

IsDict(e) == "raw" \notin DOMAIN e

\* join_char = "" if re.search(r'[-/]+$', title) else " "
JoinChar(title) ==
    IF /\ Len(BeforeNewline(title)) > 0
       /\ title[Len(BeforeNewline(title))] \in {"-", "/"}
    THEN << >> ELSE <<" ">>

\* entries[b_ix - 1]['title'] += (join_char + book['title']), then the
\* author likewise when the continuation has one: prev once updated, or
\* the exception.
JoinContinuation(prev, book) ==
    IF "title" \notin DOMAIN prev \/ "title" \notin DOMAIN book
    THEN [exc |-> "KeyError", book |-> prev]
    ELSE IF Get(book, "author", << >>) = << >>
    THEN [exc |-> "none",
          book |-> [prev EXCEPT !.title = prev.title \o JoinChar(prev.title) \o book.title]]
    ELSE IF "author" \notin DOMAIN prev
    THEN [exc |-> "KeyError", book |-> prev]
    ELSE [exc |-> "none",
          book |-> [prev EXCEPT !.title = prev.title \o JoinChar(prev.title) \o book.title,
                                !.author = JoinSpace(prev.author, book.author)]]

\* The entries after a continuation line has been joined to the last entry
Continued(acc, joined) ==
    IF joined.exc # "none"
    THEN [exc |-> joined.exc, entries |-> << >>]
    ELSE [acc EXCEPT !.entries[Len(acc.entries)] = joined.book]

\* One pass of the for loop of db_entries_to_dict, with the line's book; acc
\* holds entries (b_ix is always len(entries)) and the exception raised.
ParseBook(acc, book) ==
    IF acc.exc # "none" THEN acc
    ELSE IF DOMAIN book = {} THEN acc
    ELSE IF Get(book, "id", << >>) # << >>
    THEN [acc EXCEPT !.entries = Append(acc.entries, book)]
    ELSE IF Len(acc.entries) = 0 THEN acc
    ELSE Continued(acc, JoinContinuation(acc.entries[Len(acc.entries)], book))

ParseStep(acc, w_entry) ==
    ParseBook(acc, ZipKeys(resolve_book_entry_parts(w_entry)))

RECURSIVE ParseLoop(_, _)
ParseLoop(acc, work_entries) ==
    IF Len(work_entries) = 0 THEN acc
    ELSE ParseLoop(ParseStep(acc, Head(work_entries)), Tail(work_entries))

\* work_entries = [ent for ent in in_entries if ent and not re.search(...)]
WorkEntries(in_entries) ==
    SelectSeq(in_entries, LAMBDA ent : ent # << >> /\ ~IsHeaderLine(ent))

ParseEntries(in_entries, work_entries) ==
    IF Len(in_entries) = 0 THEN [exc |-> "none", entries |-> << >>]
    ELSE IF Len(work_entries) = 0
    THEN [exc |-> "none",
          entries |-> [i \in 1..Len(in_entries) |-> RawStr(in_entries[i])]]
    ELSE ParseLoop([exc |-> "none", entries |-> << >>], work_entries)

\* db_entries_to_dict(in_entries): [exc, entries]
db_entries_to_dict(in_entries) == ParseEntries(in_entries, WorkEntries(in_entries))

-----------------------------------------------------------------------------
(* Fuzzy Set Matcher.                                                      *)

\* set(re.split(r'[:_. ,]+', s))
SubsetTokens(s) == ToSet(ReSplit(s, SubsetSeps, 1))

\* set_a.issubset(set_b) or set_b.issubset(set_a)
EitherSubset(set_a, set_b) == set_a \subseteq set_b \/ set_b \subseteq set_a

is_subset(in_a, in_b) == EitherSubset(SubsetTokens(in_a), SubsetTokens(in_b))

\* The catalog holds a str where a dict is expected: dbb.get raises
\* AttributeError on the first element a loop or comprehension visits.
HasRaw == \E i \in 1..Len(books) : ~IsDict(books[i])

\* The outcome of a loop that stops at books[i] (0: it ran out)
ScanResult(i) ==
    IF i = 0 THEN "False"
    ELSE IF ~IsDict(books[i]) THEN "AttributeError"
    ELSE "True"

\* The loop `for dbb in self.books: if is_subset(in_str, dbb.get(key, "")):
\* return True` of is_name / is_title: "True", "False" or the exception.
ScanAny(in_str, key) ==
    ScanResult(FirstHit({i \in 1..Len(books) :
                            \/ ~IsDict(books[i])
                            \/ is_subset(in_str, Get(books[i], key, << >>))}))

is_name(in_str) == ScanAny(in_str, "author")

is_title(in_str) == ScanAny(in_str, "title")

-----------------------------------------------------------------------------
(* Series/Noise Stripper.                                                  *)

\* A match of r'[\[(][a-zA-Z0-9 -]+[\])]' at s[i] whose [a-zA-Z0-9 -]+ is n
\* long: its length, 0 if there is none.
SeriesMatchRun(s, i, n) ==
    IF /\ s[i] \in {"[", "("}
       /\ n >= 1
       /\ i + 1 + n <= Len(s)
       /\ s[i + 1 + n] \in {"]", ")"}
    THEN n + 2 ELSE 0

SeriesMatchAt(s, i) == SeriesMatchRun(s, i, RunLen(s, i + 1, SeriesClass))

\* re.finditer(rx_pattern, s): the matches from s[i] on, as <<start, length>>;
\* n is the length of the match at s[i]
RECURSIVE SeriesMatchesFrom(_, _)
RECURSIVE SeriesMatchesAt(_, _, _)
SeriesMatchesFrom(s, i) ==
    IF i > Len(s) THEN << >> ELSE SeriesMatchesAt(s, i, SeriesMatchAt(s, i))

SeriesMatchesAt(s, i, n) ==
    IF n > 0 THEN << <<i, n>> >> \o SeriesMatchesFrom(s, i + n)
    ELSE SeriesMatchesFrom(s, i + 1)

SeriesMatches(s) == SeriesMatchesFrom(s, 1)

\* s without the matches listed
RECURSIVE RemoveMatches(_, _, _)
RemoveMatches(s, matches, i) ==
    IF i > Len(s) THEN << >>
    ELSE IF Len(matches) > 0 /\ matches[1][1] = i
    THEN RemoveMatches(s, Tail(matches), i + matches[1][2])
    ELSE << s[i] >> \o RemoveMatches(s, matches, i + 1)

\* re.sub(rx_pattern, '', s)
RemoveSeries(s) == RemoveMatches(s, SeriesMatches(s), 1)

Brackets == {"(", ")", "[", "]"}

\* work_title[mt.start():mt.end()].strip("()[]")
FoundStr(work_title, mt) ==
    Strip(SubSeq(work_title, mt[1], mt[1] + mt[2] - 1), Brackets)

\* [dbb for dbb in self.books if self.is_subset(found_str, dbb.get(key, ''))]
PossBooks(found_str, key) ==
    SelectSeq(books, LAMBDA dbb : is_subset(found_str, Get(dbb, key, << >>)))

\* What remove_series_from_title returns, or the exception it raises
Stripped(exc, title, author) == [exc |-> exc, title |-> title, author |-> author]

\* The returns of remove_series_from_title, given the lists the loop left
SeriesReturn(work_title, poss_titles, poss_authors) ==
    IF Len(poss_titles) = 0 /\ Len(poss_authors) = 0
    THEN Stripped("none", Strip(RemoveSeries(work_title), Whitespace), << >>)
    ELSE IF Len(poss_authors) > 0
    THEN Stripped("none", Strip(RemoveSeries(work_title), Whitespace),
                  Get(poss_authors[1], "author", << >>))
    ELSE Stripped("none", work_title, << >>)

\* The loop overwrites poss_titles and poss_authors on every pass: after it
\* they are those of the last match, found_str.
SeriesLast(work_title, found_str) ==
    SeriesReturn(work_title, PossBooks(found_str, "title"),
                 PossBooks(found_str, "author"))

SeriesLoop(work_title, matches) ==
    IF Len(matches) = 0 THEN SeriesReturn(work_title, << >>, << >>)
    ELSE IF HasRaw THEN Stripped("AttributeError", << >>, << >>)
    ELSE SeriesLast(work_title, FoundStr(work_title, matches[Len(matches)]))

\* remove_series_from_title(work_title): [exc, title, author]
remove_series_from_title(work_title) ==
    IF work_title = << >> THEN Stripped("none", << >>, << >>)
    ELSE SeriesLoop(work_title, SeriesMatches(work_title))

-----------------------------------------------------------------------------
(* Title/Author Extractor.                                                 *)

\* BookEntry(id, title, author, error), or the exception raised instead
BookEntry(id, title, author, error) ==
    [exc |-> "none", id |-> id, title |-> title, author |-> author, error |-> error]

Raised(exc) ==
    [exc |-> exc, id |-> -1, title |-> << >>, author |-> << >>, error |-> "UNKNOWN"]

\* BookEntry(id=int(db_bk.get("id", -1)), title=db_bk.get("title", ""),
\*           author=db_bk.get("author", ...), error=Result.PROCESSING)
EntryOf(db_bk) ==
    IF "id" \notin DOMAIN db_bk
    THEN BookEntry(-1, Get(db_bk, "title", << >>), Get(db_bk, "author", << >>),
                   "PROCESSING")
    ELSE IF ~IsIntLiteral(db_bk.id) THEN Raised("ValueError")
    ELSE BookEntry(IntVal(db_bk.id), Get(db_bk, "title", << >>),
                   Get(db_bk, "author", << >>), "PROCESSING")

STR_hyphen == <<" ", "-", " ">>

STR_by == <<" ", "b", "y", " ">>

STR_zlib == <<"z", "-", "l", "i", "b">>

STR_org == <<"o", "r", "g">>

\* self.is_title(after_split) or not self.is_name(after_split), given what
\* the two calls give: "True", "False" or the exception
TitleOrNotName(title_res, name_res) ==
    IF title_res \in {"True", "AttributeError"} THEN title_res
    ELSE IF name_res = "AttributeError" THEN name_res
    ELSE IF name_res = "False" THEN "True" ELSE "False"

IsTitleAfter(after_split) ==
    TitleOrNotName(is_title(after_split), is_name(after_split))

\* What a loop over candidate records gives: the BookEntry it returns (or the
\* exception it raises) at the first record that decides it, if any does
LoopStop(found, entry) == [found |-> found, entry |-> entry]

\* for db_bk in db_poss_title, stopping at db_poss_title[i]: is_subset raises
\* TypeError on a missing author
TitleLoopAt(db_poss_title, i) ==
    IF i = 0 THEN LoopStop(FALSE, Raised("none"))
    ELSE IF "author" \notin DOMAIN db_poss_title[i]
    THEN LoopStop(TRUE, Raised("TypeError"))
    ELSE LoopStop(TRUE, EntryOf(db_poss_title[i]))

TitleLoop(db_poss_title, work_title, work_author) ==
    TitleLoopAt(db_poss_title,
                FirstHit({i \in 1..Len(db_poss_title) :
                             \/ "author" \notin DOMAIN db_poss_title[i]
                             \/ is_subset(work_author, db_poss_title[i].author)
                             \/ is_subset(db_poss_title[i].author, work_title)}))

\* for db_bk in db_poss_author, stopping at db_poss_author[i]
AuthorLoopAt(db_poss_author, i) ==
    IF i = 0 THEN LoopStop(FALSE, Raised("none"))
    ELSE IF "title" \notin DOMAIN db_poss_author[i]
    THEN LoopStop(TRUE, Raised("TypeError"))
    ELSE LoopStop(TRUE, EntryOf(db_poss_author[i]))

AuthorLoop(db_poss_author, work_author) ==
    AuthorLoopAt(db_poss_author,
                 FirstHit({i \in 1..Len(db_poss_author) :
                              \/ "title" \notin DOMAIN db_poss_author[i]
                              \/ is_subset(work_author, db_poss_author[i].title)}))

\* The last return of extract_title_if_hyphen, after both loops
HyphenFallback(working_title, work_title, work_author, by_author) ==
    IF by_author.found THEN by_author.entry
    ELSE BookEntry(-1,
                   IF work_title # << >> THEN work_title ELSE working_title,
                   work_author, "PROCESSING")

\* db_poss_author = [dbb for dbb in self.books if self.is_subset(work_title,
\* dbb.get("author", None))] raises TypeError on a record with no author
HyphenByAuthor(working_title, work_title, work_author, by_title) ==
    IF by_title.found THEN by_title.entry
    ELSE IF \E i \in 1..Len(books) : "author" \notin DOMAIN books[i]
    THEN Raised("TypeError")
    ELSE HyphenFallback(working_title, work_title, work_author,
                        AuthorLoop(PossBooks(work_title, "author"), work_author))

HyphenByTitle(working_title, work_title, work_author) ==
    HyphenByAuthor(working_title, work_title, work_author,
                   TitleLoop(PossBooks(work_title, "title"), work_title, work_author))

\* work_author = before_split if is_title_after else after_split;
\* work_title = after_split if is_title_after else before_split
HyphenSwap(working_title, before_split, after_split, is_title_after) ==
    IF is_title_after = "AttributeError" THEN Raised("AttributeError")
    ELSE HyphenByTitle(working_title,
                       IF is_title_after = "True" THEN after_split ELSE before_split,
                       IF is_title_after = "True" THEN before_split ELSE after_split)

HyphenParts(working_title, before_split, after_split) ==
    HyphenSwap(working_title, before_split, after_split, IsTitleAfter(after_split))

\* split_title = working_title.split(" - ", 1), " - " being at ix
HyphenSplit(working_title, ix) ==
    HyphenParts(working_title,
                Strip(Take(working_title, ix - 1), Whitespace),
                Strip(Drop(working_title, ix + 2), {"-", " "}))

extract_title_if_hyphen(working_title) ==
    IF ~Contains(working_title, STR_hyphen)
    THEN BookEntry(-1, working_title, << >>, "TITLE_EMPTY")
    ELSE HyphenSplit(working_title, Find(working_title, STR_hyphen))

\* A match of r'[(]?z-lib(.org)?[)]?' at s[i]: open is 1 when it starts with
\* "(", j is the place after "z-lib", org is 4 when ".org" is there (the "."
\* being any character but "\n")
ZlibClose(s, k, sofar) == IF k <= Len(s) /\ s[k] = ")" THEN sofar + 1 ELSE sofar

ZlibOrg(s, j, sofar, org) == ZlibClose(s, j + org, sofar + org)

ZlibTail(s, j, sofar) ==
    ZlibOrg(s, j, sofar,
            IF j <= Len(s) /\ s[j] # "\n" /\ StartsWithAt(s, STR_org, j + 1)
            THEN 4 ELSE 0)

ZlibOpen(s, i, open) ==
    IF StartsWithAt(s, STR_zlib, i + open)
    THEN ZlibTail(s, i + open + Len(STR_zlib), open + Len(STR_zlib))
    ELSE 0

\* The length of the match of r'[(]?z-lib(.org)?[)]?' at s[i], 0 if none.
ZlibMatchAt(s, i) ==
    ZlibOpen(s, i, IF s[i] = "(" /\ StartsWithAt(s, STR_zlib, i + 1) THEN 1 ELSE 0)

\* re.sub(pat, "", s); n is the length of the match at s[i]
RECURSIVE RemoveZlibFrom(_, _)
RECURSIVE RemoveZlibAt(_, _, _)
RemoveZlibFrom(s, i) ==
    IF i > Len(s) THEN << >> ELSE RemoveZlibAt(s, i, ZlibMatchAt(s, i))

RemoveZlibAt(s, i, n) ==
    IF n > 0 THEN RemoveZlibFrom(s, i + n)
    ELSE << s[i] >> \o RemoveZlibFrom(s, i + 1)

RemoveZlib(s) == RemoveZlibFrom(s, 1)

\* A match of r'[(].*\) *$' in s, t being s up to where `$` matches and
\* without its trailing blanks: it starts at the first "(" that has no "\n"
\* between it and a last ")", and runs to where `$` matches
TrailingParenAt(s, t) ==
    IF Len(t) > 0 /\ t[Len(t)] = ")"
    THEN FirstHit({i \in 1..(Len(t) - 1) :
                      /\ t[i] = "("
                      /\ \A m \in (i + 1)..(Len(t) - 1) : t[m] # "\n"})
    ELSE 0

CutFrom(s, i) ==
    IF i > 0 THEN Take(s, i - 1) \o Drop(s, Len(BeforeNewline(s))) ELSE s

\* re.sub(r'[(].*\) *$', "", s)
RemoveTrailingParen(s) ==
    CutFrom(s, TrailingParenAt(s, RStrip(BeforeNewline(s), Space)))

\* The last return of extract_title_author
AfterHyphen(working_title, working_author, working_info) ==
    IF working_info.exc # "none" THEN working_info
    ELSE BookEntry(-1,
                   Strip(RemoveTrailingParen(IF working_info.title # << >>
                                             THEN working_info.title
                                             ELSE working_title),
                         Whitespace),
                   IF working_info.author # << >> THEN working_info.author
                   ELSE working_author,
                   "PROCESSING")

\* if " by " in working_title: ...; splitter_ix is working_title.rfind + 1
SplitBy(working_title, working_author, splitter_ix) ==
    IF splitter_ix > 0
    THEN BookEntry(-1,
                   Strip(Take(working_title, splitter_ix - 1), Whitespace),
                   Strip(Drop(working_title, splitter_ix - 1 + Len(STR_by)), Whitespace),
                   "PROCESSING")
    ELSE AfterHyphen(working_title, working_author,
                     extract_title_if_hyphen(working_title))

\* working_title is what the two re.sub calls left
AfterZlib(working_title, working_author) ==
    SplitBy(working_title, working_author, RFind(working_title, STR_by))

\* working_title = re.sub(pat, "", working_title).strip();
\* working_title = re.sub(r'[(.]+$', '', working_title)
StripNoise(working_title) ==
    SubAtEnd(Strip(RemoveZlib(working_title), Whitespace), {"(", "."})

\* working_title, working_author = self.remove_series_from_title(working_title)
AfterSeries(series) ==
    IF series.exc # "none" THEN Raised(series.exc)
    ELSE IF series.title = << >> THEN BookEntry(-1, << >>, << >>, "TITLE_EMPTY")
    ELSE AfterZlib(StripNoise(series.title), series.author)

extract_title_author(working_title) ==
    AfterSeries(remove_series_from_title(working_title))

-----------------------------------------------------------------------------
(* Catalog Resolver.                                                       *)

\* The returns of test_title_author_sets, given its sets
TestSets(db_title, in_title, in_author, title_set, db_title_set, db_author_set, in_author_set) ==
    IF Contains(db_title, in_title) THEN TRUE
    ELSE IF ~(title_set \subseteq db_title_set \/ db_title_set \subseteq title_set)
    THEN FALSE
    ELSE IF in_author_set = {} \/ in_author = << >> THEN TRUE
    ELSE db_author_set \subseteq title_set \/ db_author_set \subseteq in_author_set

\* db_title is the record's title without [:_-]
TestTitle(db_title, db_author, in_title, in_author) ==
    TestSets(db_title, in_title, in_author,
             ToSet(ReSplit(RemoveChars(in_title, TitlePunct), Space, 1)),
             ToSet(ReSplit(db_title, Space, 1)),
             ToSet(ReSplit(db_author, AuthorSeps, 1)),
             ToSet(ReSplit(in_author, AuthorSeps, 1)))

test_title_author_sets(in_db_book, in_title, in_author) ==
    TestTitle(RemoveChars(Get(in_db_book, "title", << >>), TitlePunct),
              Get(in_db_book, "author", << >>), in_title, in_author)

\* The index of the record the for loop of matching_book stops at: the first
\* that is no dict (book.get raises) or passes the test; 0 if it runs out.
MatchIndex(in_title, in_author) ==
    FirstHit({i \in 1..Len(books) :
                 \/ ~IsDict(books[i])
                 \/ test_title_author_sets(books[i], in_title, in_author)})

MatchAt(in_title, in_author, ix) ==
    IF ix = 0 THEN BookEntry(0, in_title, in_author, "BOOK_NOT_FOUND")
    ELSE IF ~IsDict(books[ix]) THEN Raised("AttributeError")
    ELSE EntryOf(books[ix])

matching_book(in_title, in_author) ==
    IF in_title = << >> THEN BookEntry(-1, << >>, << >>, "UNKNOWN")
    ELSE MatchAt(in_title, in_author, MatchIndex(in_title, in_author))

-----------------------------------------------------------------------------
(* process_book and the commands it runs.                                  *)

\* str(n)
RECURSIVE NatStr(_)
NatStr(n) ==
    IF n < 10 THEN << DigitChars[n + 1] >>
    ELSE NatStr(n \div 10) \o << DigitChars[(n % 10) + 1] >>

ToStr(n) == IF n < 0 THEN <<"-">> \o NatStr(-n) ELSE NatStr(n)

\* s.endswith(p)
EndsWith(s, p) ==
    Len(p) <= Len(s) /\ SubSeq(s, Len(s) - Len(p) + 1, Len(s)) = p

\* A match of r'\.[a-zA-Z0-9]+$' at the last "." of file_name before the
\* place where `$` matches, at dot (0: there is no "."): <<base name,
\* extension>>
ExtensionAt(file_name, dot) ==
    IF /\ dot > 0
       /\ dot < Len(BeforeNewline(file_name))
       /\ \A i \in (dot + 1)..Len(BeforeNewline(file_name)) : file_name[i] \in AlNum
    THEN << Take(file_name, dot - 1),
            SubSeq(file_name, dot + 1, Len(BeforeNewline(file_name))) >>
    ELSE << file_name, file_name >>

\* file_name = file_name or self.book_file; matched = re.search(...)
get_file_base_name_and_extension(file_name) ==
    IF file_name # << >>
    THEN ExtensionAt(file_name,
                     LastHit({i \in 1..Len(BeforeNewline(file_name)) :
                                 file_name[i] = "."}))
    ELSE ExtensionAt(book_file,
                     LastHit({i \in 1..Len(BeforeNewline(book_file)) :
                                 book_file[i] = "."}))

STR_AddedBookIds ==
    <<"A","d","d","e","d"," ","b","o","o","k"," ","i","d","s",":"," ">>

\* b_id = int(result.stdout.split(wanted_str)[-1])
AddedBook(id_str) ==
    IF IsIntLiteral(id_str)
    THEN BookEntry(IntVal(id_str), << >>, << >>, "PROCESSED")
    ELSE Raised("ValueError")

\* add_book, given what `calibredb add` printed
add_book(stdout) ==
    IF ~Contains(stdout, STR_AddedBookIds)
    THEN BookEntry(-1, << >>, << >>, "UNABLE_TO_ADD_BOOK")
    ELSE AddedBook(Drop(stdout,
                        RFind(stdout, STR_AddedBookIds) - 1 + Len(STR_AddedBookIds)))

STR_formats == <<"f","o","r","m","a","t","s">>

\* re.search(r'^(Fail|id +title|id +formats)', book_line)
IsFormatsHeader(book_line) ==
    \/ IsHeaderLine(book_line)
    \/ /\ StartsWithAt(book_line, STR_id, 1)
       /\ RunLen(book_line, 3, Space) >= 1
       /\ StartsWithAt(book_line, STR_formats, 3 + RunLen(book_line, 3, Space))

\* One pass of the loop of get_book_formats past the header test, line_id
\* being the stripped digit run of the line
MatchedAdd(matched_book, book_line, book_id, line_id) ==
    IF line_id = << >> /\ matched_book = << >> THEN matched_book
    ELSE IF line_id # << >> /\ Strip(book_id, Whitespace) # line_id THEN matched_book
    ELSE matched_book \o Drop(book_line, Len(line_id))

MatchedStep(matched_book, book_line, book_id) ==
    IF IsFormatsHeader(book_line) THEN matched_book
    ELSE MatchedAdd(matched_book, book_line, book_id,
                    Strip(LeadingId(book_line), Whitespace))

RECURSIVE MatchedLoop(_, _, _)
MatchedLoop(matched_book, lines, book_id) ==
    IF Len(lines) = 0 THEN matched_book
    ELSE MatchedLoop(MatchedStep(matched_book, Head(lines), book_id),
                     Tail(lines), book_id)

\* A match of r'\.[a-z]+\b' at s[i] whose [a-z]+ is n long: n, 0 if none
FormatAt(s, i, n) ==
    IF /\ s[i] = "."
       /\ n >= 1
       /\ (i + n + 1 > Len(s) \/ s[i + n + 1] \notin WordChar)
    THEN n ELSE 0

\* [re.sub(r'^\.', '', fmt) for fmt in re.findall(r'\.[a-z]+\b', s)], from
\* s[i] on; n is the length of the format at s[i]
RECURSIVE FormatsFrom(_, _)
RECURSIVE FormatsAt(_, _, _)
FormatsFrom(s, i) ==
    IF i > Len(s) THEN << >>
    ELSE FormatsAt(s, i, FormatAt(s, i, RunLen(s, i + 1, Lower)))

FormatsAt(s, i, n) ==
    IF n > 0 THEN << SubSeq(s, i + 1, i + n) >> \o FormatsFrom(s, i + n + 1)
    ELSE FormatsFrom(s, i + 1)

\* get_book_formats, given the lines `calibredb list -s ... -f formats` printed
get_book_formats(book_id, lines) ==
    FormatsFrom(MatchedLoop(<< >>, lines, book_id), 1)

STR_pdf == <<"p","d","f">>

STR_mobi == <<"m","o","b","i">>

STR_OutputSavedTo ==
    <<"O","u","t","p","u","t"," ","s","a","v","e","d"," ","t","o"," ">>

\* What convert_book returns: a Result and the path of the output
Conversion(res, out_file) == [res |-> res, out_file |-> out_file]

\* conversion_output is the first line with "Output saved to ", "" if none
Converted(conversion_output) ==
    IF conversion_output # << >>
    THEN Conversion("CONVERSION_SUCCESSFUL",
                    Strip(Drop(conversion_output, Len(STR_OutputSavedTo)), Whitespace))
    ELSE Conversion("CONVERSION_FAILED", << >>)

LineAt(lines, ix) == IF ix = 0 THEN << >> ELSE lines[ix]

\* convert_book, given the lines ebook-convert printed
convert_book(org_book, dest_format, existing_formats, lines) ==
    IF EndsWith(IF book_file # << >> THEN book_file ELSE org_book, STR_pdf)
    THEN Conversion("CONVERSION_ABANDONED_PDF", << >>)
    ELSE IF dest_format \in ToSet(existing_formats)
    THEN Conversion("FORMAT_IN_DB", << >>)
    ELSE Converted(LineAt(lines,
                          FirstHit({i \in 1..Len(lines) :
                                       Contains(lines[i], STR_OutputSavedTo)})))

\* add_format, given the return code of `calibredb add_format`; int(
\* calibre_id) raises ValueError, after the command and os.remove when the
\* command ran
add_format(calibre_id, in_result, returncode) ==
    IF in_result = "FORMAT_IN_DB"
    THEN (IF IsIntLiteral(calibre_id)
          THEN BookEntry(IntVal(calibre_id), << >>, << >>, "FORMAT_IN_DB")
          ELSE Raised("ValueError"))
    ELSE IF returncode # 0
    THEN BookEntry(-1, << >>, << >>, "UNABLE_TO_ADD_FORMAT")
    ELSE IF IsIntLiteral(calibre_id)
    THEN BookEntry(IntVal(calibre_id), << >>, << >>, "PROCESSED")
    ELSE Raised("ValueError")

-----------------------------------------------------------------------------
(* The listings, file base names and match requests the calls are given.   *)

\* '2  Foundation  Isaac Asimov'
LINE_Foundation == <<"2"," "," ","F","o","u","n","d","a","t","i","o","n"," "," ","I","s","a","a","c"," ","A","s","i","m","o","v">>

\* '1  Foundation and Empire  Isaac Asimov'
LINE_FoundationAndEmpire == <<"1"," "," ","F","o","u","n","d","a","t","i","o","n"," ","a","n","d"," ","E","m","p","i","r","e"," "," ","I","s","a","a","c"," ","A","s","i","m","o","v">>

\* '1  Foundation and Empire  Bob'
LINE_FoundationAndEmpireBob == <<"1"," "," ","F","o","u","n","d","a","t","i","o","n"," ","a","n","d"," ","E","m","p","i","r","e"," "," ","B","o","b">>

\* '7  Dune  Frank Herbert'
LINE_Dune == <<"7"," "," ","D","u","n","e"," "," ","F","r","a","n","k"," ","H","e","r","b","e","r","t">>

\* '3  Dune.'
LINE_DuneNoAuthor == <<"3"," "," ","D","u","n","e",".">>

\* 'of  Darkness  Le Guin'
LINE_NoLeadingId == <<"o","f"," "," ","D","a","r","k","n","e","s","s"," "," ","L","e"," ","G","u","i","n">>

\* '  Messiah  Herbert'
LINE_Continuation == <<" "," ","M","e","s","s","i","a","h"," "," ","H","e","r","b","e","r","t">>

\* 'id title  authors'
LINE_Header == <<"i","d"," ","t","i","t","l","e"," "," ","a","u","t","h","o","r","s">>

\* '123  Dune  Frank Herbert'
PLINE_Dune == <<"1","2","3"," "," ","D","u","n","e"," "," ","F","r","a","n","k"," ","H","e","r","b","e","r","t">>

\* '45  The Left Hand of-'
PLINE_LeftHand == <<"4","5"," "," ","T","h","e"," ","L","e","f","t"," ","H","a","n","d"," ","o","f","-">>

\* '  Darkness  Ursula K. Le Guin'
PLINE_Darkness == <<" "," ","D","a","r","k","n","e","s","s"," "," ","U","r","s","u","l","a"," ","K","."," ","L","e"," ","G","u","i","n">>

\* 'id title  authors'
PLINE_Header == <<"i","d"," ","t","i","t","l","e"," "," ","a","u","t","h","o","r","s">>

\* ''
PLINE_Empty == <<>>

\* 'Failed'
PLINE_Failed == <<"F","a","i","l","e","d">>

\* '7  Emma'
PLINE_Emma == <<"7"," "," ","E","m","m","a">>

\* 'Darkness  Ursula'
PLINE_Unindented == <<"D","a","r","k","n","e","s","s"," "," ","U","r","s","u","l","a">>

\* '  of Time.'
PLINE_TitleOnly == <<" "," ","o","f"," ","T","i","m","e",".">>

\* '9  Ubik/  Dick'
PLINE_Ubik == <<"9"," "," ","U","b","i","k","/"," "," ","D","i","c","k">>

\* 'abc.'
PLINE_OneField == <<"a","b","c",".">>

\* '12  Café'
PLINE_Cafe == <<"1","2"," "," ","C","a","f","é">>

\* '45  The Left Hand of-\n'
PLINE_LeftHandNewline == <<"4","5"," "," ","T","h","e"," ","L","e","f","t"," ","H","a","n","d"," ","o","f","-","\n">>

\* 'Isaac Asimov - Foundation'
NAME_AsimovFoundation == <<"I","s","a","a","c"," ","A","s","i","m","o","v"," ","-"," ","F","o","u","n","d","a","t","i","o","n">>

\* 'Foundation - Isaac Asimov'
NAME_FoundationAsimov == <<"F","o","u","n","d","a","t","i","o","n"," ","-"," ","I","s","a","a","c"," ","A","s","i","m","o","v">>

\* 'Frank Herbert - Dune'
NAME_HerbertDune == <<"F","r","a","n","k"," ","H","e","r","b","e","r","t"," ","-"," ","D","u","n","e">>

\* 'Dune (Frank Herbert) z-lib.org'
NAME_DuneZlib == <<"D","u","n","e"," ","(","F","r","a","n","k"," ","H","e","r","b","e","r","t",")"," ","z","-","l","i","b",".","o","r","g">>

\* 'Dune (Frank Herbert) (Book 3)'
NAME_DuneAuthorSeries == <<"D","u","n","e"," ","(","F","r","a","n","k"," ","H","e","r","b","e","r","t",")"," ","(","B","o","o","k"," ","3",")">>

\* 'Dune (Book 3) (Frank Herbert)'
NAME_DuneSeriesAuthor == <<"D","u","n","e"," ","(","B","o","o","k"," ","3",")"," ","(","F","r","a","n","k"," ","H","e","r","b","e","r","t",")">>

\* '(Dune)'
NAME_ParenDune == <<"(","D","u","n","e",")">>

\* '(Vol.2)'
NAME_ParenVol == <<"(","V","o","l",".","2",")">>

\* ''
NAME_Empty == <<>>

\* 'Neuromancer by William Gibson'
NAME_Neuromancer == <<"N","e","u","r","o","m","a","n","c","e","r"," ","b","y"," ","W","i","l","l","i","a","m"," ","G","i","b","s","o","n">>

\* 'Dune'
NAME_Dune == <<"D","u","n","e">>

\* '(Book 3)'
NAME_ParenBook == <<"(","B","o","o","k"," ","3",")">>

\* 'Le Guin - Darkness'
NAME_LeGuinDarkness == <<"L","e"," ","G","u","i","n"," ","-"," ","D","a","r","k","n","e","s","s">>

\* 'Ubik [SF-1] (z-lib.org).'
NAME_UbikNoise == <<"U","b","i","k"," ","[","S","F","-","1","]"," ","(","z","-","l","i","b",".","o","r","g",")",".">>

\* 'Stand by Me by Stephen King'
NAME_StandByMe == <<"S","t","a","n","d"," ","b","y"," ","M","e"," ","b","y"," ","S","t","e","p","h","e","n"," ","K","i","n","g">>

\* 'Frank Herbert - Dune by Bob'
NAME_HyphenBy == <<"F","r","a","n","k"," ","H","e","r","b","e","r","t"," ","-"," ","D","u","n","e"," ","b","y"," ","B","o","b">>

\* 'Dune (Book 3) by Frank Herbert (z-lib.org).'
NAME_SeriesBy == <<"D","u","n","e"," ","(","B","o","o","k"," ","3",")"," ","b","y"," ","F","r","a","n","k"," ","H","e","r","b","e","r","t"," ","(","z","-","l","i","b",".","o","r","g",")",".">>

\* 'Dune\t by Bob\n'
NAME_ByNewline == <<"D","u","n","e","\t"," ","b","y"," ","B","o","b","\n">>

\* 'Café (Book 3)\t'
NAME_SeriesTab == <<"C","a","f","é"," ","(","B","o","o","k"," ","3",")","\t">>

\* ''
STR_Empty == <<>>

\* 'Dune'
STR_Dune == <<"D","u","n","e">>

\* 'Foundation'
STR_Foundation == <<"F","o","u","n","d","a","t","i","o","n">>

\* 'Foundation Empire'
STR_FoundationEmpire == <<"F","o","u","n","d","a","t","i","o","n"," ","E","m","p","i","r","e">>

\* 'Darkness'
STR_Darkness == <<"D","a","r","k","n","e","s","s">>

\* 'Ubik'
STR_Ubik == <<"U","b","i","k">>

\* 'Frank Herbert'
STR_FrankHerbert == <<"F","r","a","n","k"," ","H","e","r","b","e","r","t">>

\* 'Herbert, Frank'
STR_HerbertFrank == <<"H","e","r","b","e","r","t",","," ","F","r","a","n","k">>

\* 'Isaac Asimov'
STR_IsaacAsimov == <<"I","s","a","a","c"," ","A","s","i","m","o","v">>

\* 'Asimov'
STR_Asimov == <<"A","s","i","m","o","v">>

\* 'Bob'
STR_Bob == <<"B","o","b">>

\* 'Le Guin'
STR_LeGuin == <<"L","e"," ","G","u","i","n">>

\* ' Frank'
STR_SpaceFrank == <<" ","F","r","a","n","k">>

\* '. '
STR_DotSpace == <<"."," ">>

\* The most lines of one `calibredb list` output
MaxBooks == 2

\* The most lines of one in_entries handed to db_entries_to_dict
MaxLines == 2

SeqsUpTo(S, n) == UNION {[1..k -> S] : k \in 0..n}

CatLines == {LINE_Foundation, LINE_FoundationAndEmpire, LINE_FoundationAndEmpireBob,
             LINE_Dune, LINE_DuneNoAuthor, LINE_NoLeadingId, LINE_Continuation,
             LINE_Header}

\* result_all.stdout.split("\n"): the lines, and the "" after the last "\n"
\* (stdout is empty when calibredb printed nothing)
CatalogListings == {l \o << << >> >> : l \in SeqsUpTo(CatLines, MaxBooks)}

ParserLines == {PLINE_Dune, PLINE_LeftHand, PLINE_Darkness, PLINE_Header,
                PLINE_Empty, PLINE_Failed, PLINE_Emma, PLINE_Unindented,
                PLINE_TitleOnly, PLINE_Ubik, PLINE_OneField, PLINE_Cafe,
                PLINE_LeftHandNewline}

ParserListings == SeqsUpTo(ParserLines, MaxLines)

Names == {NAME_AsimovFoundation, NAME_FoundationAsimov, NAME_HerbertDune,
          NAME_DuneZlib, NAME_DuneAuthorSeries, NAME_DuneSeriesAuthor,
          NAME_ParenDune, NAME_ParenVol, NAME_Empty, NAME_Neuromancer,
          NAME_Dune, NAME_ParenBook, NAME_LeGuinDarkness, NAME_UbikNoise,
          NAME_StandByMe, NAME_HyphenBy, NAME_SeriesBy, NAME_ByNewline,
          NAME_SeriesTab}

\* <<title, author>> of the BookEntry handed to matching_book
Infos == {<<STR_Empty, STR_Empty>>,
          <<STR_Empty, STR_FrankHerbert>>,
          <<STR_Dune, STR_Empty>>,
          <<STR_Dune, STR_FrankHerbert>>,
          <<STR_Dune, STR_Bob>>,
          <<STR_Foundation, STR_IsaacAsimov>>,
          <<STR_Foundation, STR_Asimov>>,
          <<STR_FoundationEmpire, STR_Asimov>>,
          <<STR_FoundationEmpire, STR_Empty>>,
          <<STR_Darkness, STR_LeGuin>>,
          <<STR_Ubik, STR_Bob>>,
          <<STR_FrankHerbert, STR_Dune>>}

SubsetStrings == {STR_Empty, STR_Dune, STR_FrankHerbert, STR_HerbertFrank,
                  STR_SpaceFrank, STR_DotSpace, STR_Asimov, STR_IsaacAsimov, STR_Bob,
                  STR_FoundationEmpire, STR_Foundation}

\* 'Frank Herbert - Dune.epub'
FILE_HerbertDune == <<"F","r","a","n","k"," ","H","e","r","b","e","r","t"," ","-"," ","D","u","n","e",".","e","p","u","b">>

\* 'Dune.pdf'
FILE_DunePdf == <<"D","u","n","e",".","p","d","f">>

\* 'Dune'
FILE_NoExtension == <<"D","u","n","e">>

\* '(Vol.2).epub'
FILE_ParenVol == <<"(","V","o","l",".","2",")",".","e","p","u","b">>

\* 'Neuromancer by William Gibson.epub'
FILE_Neuromancer == <<"N","e","u","r","o","m","a","n","c","e","r"," ","b","y"," ","W","i","l","l","i","a","m"," ","G","i","b","s","o","n",".","e","p","u","b">>

\* ''
FILE_Empty == <<>>

\* 'Le Guin - Darkness.epub'
FILE_LeGuinDarkness == <<"L","e"," ","G","u","i","n"," ","-"," ","D","a","r","k","n","e","s","s",".","e","p","u","b">>

\* 'Dune.epub\n'
FILE_Newline == <<"D","u","n","e",".","e","p","u","b","\n">>

\* ''
OUT_Nothing == <<>>

\* 'Added book ids: 8'
OUT_AddedBook == <<"A","d","d","e","d"," ","b","o","o","k"," ","i","d","s",":"," ","8">>

\* 'Added book ids: 8\n'
OUT_AddedBookNewline == <<"A","d","d","e","d"," ","b","o","o","k"," ","i","d","s",":"," ","8","\n">>

\* 'id formats'
OUT_FormatsHeader == <<"i","d"," ","f","o","r","m","a","t","s">>

\* '7  [/lib/Dune.epub]'
OUT_FormatsEpub == <<"7"," "," ","[","/","l","i","b","/","D","u","n","e",".","e","p","u","b","]">>

\* '7  [/lib/Dune.epub, /lib/Dune.mobi]'
OUT_FormatsMobi == <<"7"," "," ","[","/","l","i","b","/","D","u","n","e",".","e","p","u","b",","," ","/","l","i","b","/","D","u","n","e",".","m","o","b","i","]">>

\* '8  [/lib/Dune.epub,'
OUT_FormatsWrapped == <<"8"," "," ","[","/","l","i","b","/","D","u","n","e",".","e","p","u","b",",">>

\* '   /lib/Dune.mobi]'
OUT_FormatsRest == <<" "," "," ","/","l","i","b","/","D","u","n","e",".","m","o","b","i","]">>

\* 'Converting input to HTML...'
OUT_Converting == <<"C","o","n","v","e","r","t","i","n","g"," ","i","n","p","u","t"," ","t","o"," ","H","T","M","L",".",".",".">>

\* 'Output saved to   /home/temp/Dune.mobi'
OUT_Saved == <<"O","u","t","p","u","t"," ","s","a","v","e","d"," ","t","o"," "," "," ","/","h","o","m","e","/","t","e","m","p","/","D","u","n","e",".","m","o","b","i">>

\* in_book: the files dropped into the watched directory
Files == {FILE_HerbertDune, FILE_DunePdf, FILE_NoExtension, FILE_ParenVol,
          FILE_Neuromancer, FILE_Empty, FILE_LeGuinDarkness, FILE_Newline}

\* book_file of CalibreBookHandler(watched_dir, book_file)
HandlerFiles == {FILE_Empty, FILE_DunePdf, FILE_HerbertDune}

\* result.stdout of `calibredb add`
AddOutputs == {OUT_Nothing, OUT_AddedBook, OUT_AddedBookNewline}

\* result_raw.stdout.split("\n") of `calibredb list -s ... -f formats`
FormatsOutputs ==
    {<< OUT_Nothing >>,
     << OUT_FormatsHeader, OUT_FormatsEpub, OUT_Nothing >>,
     << OUT_FormatsHeader, OUT_FormatsMobi, OUT_Nothing >>,
     << OUT_FormatsHeader, OUT_FormatsWrapped, OUT_FormatsRest, OUT_Nothing >>}

\* result.stdout.split("\n") of ebook-convert
ConvertOutputs ==
    {<< OUT_Nothing >>,
     << OUT_Converting, OUT_Saved, OUT_Nothing >>}

\* result.returncode of `calibredb add_format`
ReturnCodes == {0, 1}

-----------------------------------------------------------------------------
(* The handler.  listing is what `calibredb list` printed; pc is "new"     *)
(* before __init__, "ready" once self.books is set, "crashed" when __init__ *)
(* raised, "done" when the call has returned or raised.  call is the call  *)
(* made on the handler: its arguments a and b, the exception it raised     *)
(* ("pending" before it is made) and the value it returned.  frame holds   *)
(* the locals of a process_book call under way, steps the methods and file *)
(* operations it has invoked so far, in order.  book_file is the           *)
(* constructor's argument, self.book_file once __init__ has run.           *)

\* The locals of process_book: file_base_name, the id, title and author of
\* list_entry, the existing_formats handed to convert_book, convert_res and
\* out_file
Frame(file_base_name, id, title, author, existing_formats, convert_res, out_file) ==
    [file_base_name |-> file_base_name, id |-> id, title |-> title,
     author |-> author, existing_formats |-> existing_formats,
     convert_res |-> convert_res, out_file |-> out_file]

NoFrame == Frame(<< >>, -1, << >>, << >>, << >>, "UNKNOWN", << >>)

Call(op, a, b, exc, val) == [op |-> op, a |-> a, b |-> b, exc |-> exc, val |-> val]

Pending(op, a, b) == Call(op, a, b, "pending", << >>)

Init ==
    /\ pc = "new"
    /\ listing \in CatalogListings
    /\ books = << >>
    /\ book_file = << >>
    /\ frame = NoFrame
    /\ steps = << >>
    /\ \/ \E name \in Names : call = Pending("remove_series_from_title", name, << >>)
       \/ \E name \in Names : call = Pending("extract_title_author", name, << >>)
       \/ \E info \in Infos : call = Pending("matching_book", info[1], info[2])

\* CalibreBookHandler.__init__: self.books = self.get_all_db_books()
Construct ==
    LET r == db_entries_to_dict(listing)
    IN  /\ pc = "new"
        /\ pc' = IF r.exc = "none" THEN "ready" ELSE "crashed"
        /\ books' = r.entries
        /\ UNCHANGED <<listing, book_file, call, frame, steps>>

CallRemoveSeries ==
    LET r == remove_series_from_title(call.a)
    IN  /\ pc = "ready"
        /\ call.op = "remove_series_from_title"
        /\ pc' = "done"
        /\ call' = [call EXCEPT !.exc = r.exc,
                                !.val = [title |-> r.title, author |-> r.author]]
        /\ UNCHANGED <<listing, books, book_file, frame, steps>>

CallExtractTitleAuthor ==
    LET r == extract_title_author(call.a)
    IN  /\ pc = "ready"
        /\ call.op = "extract_title_author"
        /\ pc' = "done"
        /\ call' = [call EXCEPT !.exc = r.exc, !.val = r]
        /\ UNCHANGED <<listing, books, book_file, frame, steps>>

CallMatchingBook ==
    LET r == matching_book(call.a, call.b)
    IN  /\ pc = "ready"
        /\ call.op = "matching_book"
        /\ pc' = "done"
        /\ call' = [call EXCEPT !.exc = r.exc, !.val = r]
        /\ UNCHANGED <<listing, books, book_file, frame, steps>>

Next ==
    \/ Construct
    \/ CallRemoveSeries
    \/ CallExtractTitleAuthor
    \/ CallMatchingBook

Spec == Init /\ [][Next]_vars

\* The methods that read no field of the handler, called on their own.
InitPure ==
    /\ pc = "ready"
    /\ listing = << >>
    /\ books = << >>
    /\ book_file = << >>
    /\ frame = NoFrame
    /\ steps = << >>
    /\ \/ \E in_entries \in ParserListings :
             call = Pending("db_entries_to_dict", in_entries, << >>)
       \/ \E in_a \in SubsetStrings, in_b \in SubsetStrings :
             call = Pending("is_subset", in_a, in_b)

CallDbEntriesToDict ==
    LET r == db_entries_to_dict(call.a)
    IN  /\ pc = "ready"
        /\ call.op = "db_entries_to_dict"
        /\ pc' = "done"
        /\ call' = [call EXCEPT !.exc = r.exc, !.val = r.entries]
        /\ UNCHANGED <<listing, books, book_file, frame, steps>>

CallIsSubset ==
    /\ pc = "ready"
    /\ call.op = "is_subset"
    /\ pc' = "done"
    /\ call' = [call EXCEPT !.exc = "none", !.val = is_subset(call.a, call.b)]
    /\ UNCHANGED <<listing, books, book_file, frame, steps>>

NextPure ==
    \/ CallDbEntriesToDict
    \/ CallIsSubset

SpecPure == InitPure /\ [][NextPure]_vars

-----------------------------------------------------------------------------
(* process_book, one action for each stretch between two commands.  The    *)
(* file operations (os.rename, os.remove) succeed; what the commands print *)
(* and return is chosen by the action that runs them.                      *)

\* A method or file operation process_book invoked, with list_entry.id and
\* convert_res as they were then
Step(op) == [op |-> op, id |-> frame.id, res |-> frame.convert_res]

\* What a stretch of process_book ends in: a return, an exception, or the
\* place of the next stretch with the locals
Return(val) == [pc |-> "done", frame |-> frame, exc |-> "none", val |-> val]

Raise(exc) == [pc |-> "done", frame |-> frame, exc |-> exc, val |-> << >>]

Goto(to, locals) == [pc |-> to, frame |-> locals, exc |-> "pending", val |-> << >>]

Proceed(o) ==
    /\ pc' = o.pc
    /\ frame' = o.frame
    /\ call' = [call EXCEPT !.exc = o.exc, !.val = o.val]
    /\ UNCHANGED <<listing, books>>

\* if not os.path.exists(...): return 0; if not extension_str or
\* extension_str == file_base_name: return 0
Started(exists, name) ==
    IF ~exists THEN Return(0)
    ELSE IF name[2] = << >> \/ name[2] = name[1] THEN Return(0)
    ELSE Goto("extract", [frame EXCEPT !.file_base_name = name[1]])

\* if in_book: self.book_file = in_book; ...
\* self.get_file_base_name_and_extension() reads the book_file just set
ProcessBookStart ==
    /\ pc = "ready"
    /\ call.op = "process_book"
    /\ book_file' = IF call.a # << >> THEN call.a ELSE book_file
    /\ \E exists \in BOOLEAN :
          Proceed(Started(exists, get_file_base_name_and_extension(<< >>)'))
    /\ UNCHANGED steps

\* if not ex_info.title or ex_info.error != Result.PROCESSING: return 0
Extracted(ex_info) ==
    IF ex_info.exc # "none" THEN Raise(ex_info.exc)
    ELSE IF ex_info.title = << >> \/ ex_info.error # "PROCESSING" THEN Return(0)
    ELSE Goto("match", [frame EXCEPT !.id = ex_info.id,
                                     !.title = ex_info.title,
                                     !.author = ex_info.author])

ProcessBookExtract ==
    /\ pc = "extract"
    /\ Proceed(Extracted(extract_title_author(frame.file_base_name)))
    /\ steps' = Append(steps, Step("extract_title_author"))
    /\ UNCHANGED book_file

\* if list_entry.id == -1: return 0; if not list_entry.id: add the book
Matched(list_entry) ==
    IF list_entry.exc # "none" THEN Raise(list_entry.exc)
    ELSE IF list_entry.id = -1 THEN Return(0)
    ELSE Goto(IF list_entry.id = 0 THEN "add_book" ELSE "formats",
              [frame EXCEPT !.id = list_entry.id,
                            !.title = list_entry.title,
                            !.author = list_entry.author])

ProcessBookMatch ==
    /\ pc = "match"
    /\ Proceed(Matched(matching_book(frame.title, frame.author)))
    /\ steps' = Append(steps, Step("matching_book"))
    /\ UNCHANGED book_file

\* if res_entry.id == -1: return 0; list_entry = BookEntry(id=res_entry.id, ...)
Added(res_entry) ==
    IF res_entry.exc # "none" THEN Raise(res_entry.exc)
    ELSE IF res_entry.id = -1 THEN Return(0)
    ELSE Goto("formats", [frame EXCEPT !.id = res_entry.id])

ProcessBookAdd ==
    /\ pc = "add_book"
    /\ \E stdout \in AddOutputs : Proceed(Added(add_book(stdout)))
    /\ steps' = Append(steps, Step("add_book"))
    /\ UNCHANGED book_file

\* convert_res, out_file = self.convert_book(...)
Converting(conversion) ==
    Goto("save", [frame EXCEPT !.convert_res = conversion.res,
                               !.out_file = conversion.out_file])

\* existing_formats=self.get_book_formats(str(list_entry.id), list_entry.title),
\* evaluated before convert_book is entered
ProcessBookFormats ==
    /\ pc = "formats"
    /\ \E formats \in FormatsOutputs :
          Proceed(Goto("convert",
                       [frame EXCEPT !.existing_formats =
                           get_book_formats(ToStr(frame.id), formats)]))
    /\ steps' = Append(steps, Step("get_book_formats"))
    /\ UNCHANGED book_file

\* self.convert_book(dest_format=target_format, existing_formats=...)
ProcessBookConvert ==
    /\ pc = "convert"
    /\ \E lines \in ConvertOutputs :
          Proceed(Converting(convert_book(<< >>, STR_mobi,
                                          frame.existing_formats, lines)))
    /\ steps' = Append(steps, Step("convert_book"))
    /\ UNCHANGED book_file

\* The save that goes on to add_format whatever convert_res is
SavedAlways == Goto("add_format", frame)

\* os.rename(...); if convert_res in [...]: return 0
Saved ==
    IF frame.convert_res \in {"FORMAT_IN_DB", "CONVERSION_FAILED",
                              "CONVERSION_ABANDONED_PDF"}
    THEN Return(0)
    ELSE Goto("add_format", frame)

ProcessBookSave ==
    /\ pc = "save"
    /\ Proceed(Saved)
    /\ steps' = Append(steps, Step("rename"))
    /\ UNCHANGED book_file

\* res_entry = self.add_format(str(list_entry.id), out_file);
\* return res_entry.id
Formatted(res_entry) ==
    IF res_entry.exc # "none" THEN Raise(res_entry.exc) ELSE Return(res_entry.id)

ProcessBookAddFormat ==
    /\ pc = "add_format"
    /\ \E returncode \in ReturnCodes :
          /\ Proceed(Formatted(add_format(ToStr(frame.id), "PROCESSING", returncode)))
          /\ steps' = steps \o (IF returncode = 0
                                THEN << Step("add_format"), Step("remove") >>
                                ELSE << Step("add_format") >>)
    /\ UNCHANGED book_file

InitProcess ==
    /\ pc = "new"
    /\ listing \in CatalogListings
    /\ books = << >>
    /\ book_file \in HandlerFiles
    /\ frame = NoFrame
    /\ steps = << >>
    /\ \E in_book \in Files : call = Pending("process_book", in_book, << >>)

NextProcess ==
    \/ Construct
    \/ ProcessBookStart
    \/ ProcessBookExtract
    \/ ProcessBookMatch
    \/ ProcessBookAdd
    \/ ProcessBookFormats
    \/ ProcessBookConvert
    \/ ProcessBookSave
    \/ ProcessBookAddFormat

SpecProcess == InitProcess /\ [][NextProcess]_vars

-----------------------------------------------------------------------------
(* Properties.                                                             *)

Returned(op) == pc = "done" /\ call.op = op

\* C1: no core operation raises: the parser on every listing, and the
\* stripper, the extractor and the resolver on every base name over the parsed
\* catalog, return a result; a record with fewer than 3 fields has an author
\* that behaves as "".
C1_NoOperationRaises ==
    /\ pc # "crashed"
    /\ pc = "done" => call.exc = "none"

\* The base name "A - T"
HyphenName(title, author) == author \o STR_hyphen \o title

\* The titles and authors the hyphen claims are about
TitleAuthorPairs ==
    {<<STR_Foundation, STR_IsaacAsimov>>, <<STR_Dune, STR_FrankHerbert>>,
     <<STR_Darkness, STR_LeGuin>>}

\* The catalog holds a record with this title and author
CatalogContains(title, author) ==
    \E i \in 1..Len(books) :
        /\ IsDict(books[i])
        /\ Get(books[i], "title", << >>) = title
        /\ Get(books[i], "author", << >>) = author

ExtractedAs(title, author) ==
    /\ call.exc = "none"
    /\ call.val.error = "PROCESSING"
    /\ call.val.title = title
    /\ call.val.author = author

\* C2: whatever other records the catalog holds, and in whatever order, a
\* catalog with a record of title T and author A makes "A - T" extract to a
\* Resolved result with title T and author A.
C2_HyphenAnyCatalog ==
    \A p \in TitleAuthorPairs :
        (/\ Returned("extract_title_author")
         /\ call.a = HyphenName(p[1], p[2])
         /\ CatalogContains(p[1], p[2]))
        => ExtractedAs(p[1], p[2])

\* The word-sets of the resolver (spec 4.5)
TitleWords(s) == ToSet(ReSplit(RemoveChars(s, TitlePunct), Space, 1))

AuthorWords(s) == ToSet(ReSplit(s, AuthorSeps, 1))

\* The record agrees with the extracted title: a literal substring, or the
\* word-sets are subsets of each other in either direction
TitleAgrees(db_bk, in_title) ==
    \/ Contains(RemoveChars(Get(db_bk, "title", << >>), TitlePunct),
                RemoveChars(in_title, TitlePunct))
    \/ TitleWords(in_title) \subseteq TitleWords(Get(db_bk, "title", << >>))
    \/ TitleWords(Get(db_bk, "title", << >>)) \subseteq TitleWords(in_title)

\* One of the three author conditions holds of the record
AuthorAgrees(db_bk, in_title, in_author) ==
    \/ AuthorWords(in_author) \subseteq AuthorWords(Get(db_bk, "author", << >>))
    \/ AuthorWords(in_author) \subseteq TitleWords(Get(db_bk, "title", << >>))
    \/ AuthorWords(Get(db_bk, "author", << >>)) \subseteq TitleWords(in_title)

\* C3: with a non-empty extracted author, the record matching_book returns
\* satisfies one of the three author conditions, and every record that
\* agrees on the title and satisfies one of them passes the match test.
C3_AuthorConstraint ==
    (/\ Returned("matching_book")
     /\ call.a # << >>
     /\ call.b # << >>
     /\ ~HasRaw
     /\ call.exc = "none")
    => /\ call.val.error = "PROCESSING"
          => AuthorAgrees(books[MatchIndex(call.a, call.b)], call.a, call.b)
       /\ \A i \in 1..Len(books) :
             (TitleAgrees(books[i], call.a) /\ AuthorAgrees(books[i], call.a, call.b))
             => test_title_author_sets(books[i], call.a, call.b)

\* The records that satisfy the match test
Passing(in_title, in_author) ==
    {i \in 1..Len(books) :
        IsDict(books[i]) /\ test_title_author_sets(books[i], in_title, in_author)}

\* C4: for a non-empty title matching_book returns the first record in parse
\* order that satisfies the match test (its id, title and author), the
\* new-title outcome (id 0, the title and author verbatim) exactly when none
\* does; for an empty title the unresolvable outcome (id -1).
C4_ResolverOutcome ==
    Returned("matching_book")
    => /\ call.exc = "none"
       /\ IF call.a = << >> THEN call.val.id = -1
          ELSE IF Passing(call.a, call.b) = {}
          THEN call.val = BookEntry(0, call.a, call.b, "BOOK_NOT_FOUND")
          ELSE /\ call.val.error = "PROCESSING"
               /\ call.val.id > 0
               /\ call.val.title
                    = Get(books[Min(Passing(call.a, call.b))], "title", << >>)
               /\ call.val.author
                    = Get(books[Min(Passing(call.a, call.b))], "author", << >>)

\* C5: a Resolved (Result.PROCESSING) result of extract_title_author has a
\* non-empty title.
C5_ResolvedHasTitle ==
    (/\ Returned("extract_title_author")
     /\ call.exc = "none"
     /\ call.val.error = "PROCESSING")
    => call.val.title # << >>

\* The fields of one line, a missing field being ""
LineField(line, key) == Get(ZipKeys(resolve_book_entry_parts(line)), key, << >>)

IsRecordLine(line) ==
    line # << >> /\ ~IsHeaderLine(line) /\ LeadingId(line) # << >>

\* A wrapped line of the listing: indented, with no leading digit run
IsContinuationLine(line) ==
    /\ line # << >>
    /\ ~IsHeaderLine(line)
    /\ Head(line) = " "
    /\ LeadingId(line) = << >>

\* C6: a record line followed by a line with no leading digit run yields one
\* record: its title is the record's title and the continuation's title
\* fragment, joined by nothing after a hyphen or slash and by one space
\* otherwise, and its author has the continuation's non-empty author fragment
\* space-appended.
C6_ContinuationJoin ==
    (/\ Returned("db_entries_to_dict")
     /\ Len(call.a) = 2
     /\ IsRecordLine(call.a[1])
     /\ IsContinuationLine(call.a[2]))
    => /\ call.exc = "none"
       /\ Len(call.val) = 1
       /\ Get(call.val[1], "title", << >>)
            = LineField(call.a[1], "title")
                \o JoinChar(LineField(call.a[1], "title"))
                \o LineField(call.a[2], "title")
       /\ Get(call.val[1], "author", << >>)
            = IF LineField(call.a[2], "author") = << >>
              THEN LineField(call.a[1], "author")
              ELSE JoinSpace(LineField(call.a[1], "author"),
                             LineField(call.a[2], "author"))

\* The digit runs of the record lines, in input order
RECURSIVE RecordIds(_)
RecordIds(in_entries) ==
    IF Len(in_entries) = 0 THEN << >>
    ELSE (IF IsRecordLine(Head(in_entries))
          THEN << Strip(LeadingId(Head(in_entries)), Space) >> ELSE << >>)
         \o RecordIds(Tail(in_entries))

\* C7: the output holds exactly one record per non-header line that begins
\* with a run of digits and whitespace, in input order, with that run as its
\* id; no other line starts a record.
C7_OnlyDigitLinesStartRecords ==
    (/\ Returned("db_entries_to_dict")
     /\ call.exc = "none"
     /\ \A i \in 1..Len(call.val) : IsDict(call.val[i]))
    => /\ Len(call.val) = Len(RecordIds(call.a))
       /\ \A i \in 1..Len(call.val) :
             Get(call.val[i], "id", << >>) = RecordIds(call.a)[i]

\* C8: the result holds catalog records only, and it is empty when the input
\* is empty or holds only empty lines and header / failure lines.
C8_HeadersNeverReachOutput ==
    Returned("db_entries_to_dict")
    => /\ \A i \in 1..Len(call.val) : IsDict(call.val[i])
       /\ (\A i \in 1..Len(call.a) : call.a[i] = << >> \/ IsHeaderLine(call.a[i]))
          => call.val = << >>

\* The set of non-empty tokens of s
NonEmptyTokens(s) == SubsetTokens(s) \ {<< >>}

\* C9: is_subset(A, B) is true exactly when the set of non-empty tokens of A
\* is a subset of that of B or the other way round.
C9_MatcherIsReference ==
    Returned("is_subset")
    => call.val = EitherSubset(NonEmptyTokens(call.a), NonEmptyTokens(call.b))

\* The contents of the bracket groups of s
SeriesContents(s) ==
    {FoundStr(s, SeriesMatches(s)[i]) : i \in 1..Len(SeriesMatches(s))}

\* The authors of the catalog that fuzzy-match the content of a bracket group
RecoverableAuthors(s) ==
    {books[i].author : i \in {j \in 1..Len(books) :
        /\ IsDict(books[j])
        /\ "author" \in DOMAIN books[j]
        /\ \E found_str \in SeriesContents(s) : is_subset(found_str, books[j].author)}}

\* C10: when the content of any bracket group fuzzy-matches a catalog
\* record's author, the stripper returns the string without its bracket
\* groups and that record's author.
C10_SeriesTagRecoversAuthor ==
    (/\ Returned("remove_series_from_title")
     /\ RecoverableAuthors(call.a) # {})
    => /\ call.exc = "none"
       /\ call.val.title = Strip(RemoveSeries(call.a), Whitespace)
       /\ call.val.author \in RecoverableAuthors(call.a)

\* The bracket groups of s, brackets included
BracketGroups(s) ==
    {SubSeq(s, SeriesMatches(s)[i][1],
            SeriesMatches(s)[i][1] + SeriesMatches(s)[i][2] - 1) :
        i \in 1..Len(SeriesMatches(s))}

\* C11: the string the stripper returns holds none of the bracket groups of
\* its input, whether their content matches nothing in the catalog, an
\* author, or a title but no author.
C11_BracketGroupsDeleted ==
    (/\ Returned("remove_series_from_title")
     /\ call.exc = "none")
    => \A group \in BracketGroups(call.a) : ~Contains(call.val.title, group)

\* The Series/Noise Stripper: the bracket groups, then the z-lib branding
\* and the trailing periods and open parentheses
NoiseStripped(s) == StripNoise(remove_series_from_title(s).title)

\* C12: over a fixed catalog, stripping the stripper's output again gives
\* that output.
C12_StrippingIdempotent ==
    (/\ Returned("extract_title_author")
     /\ ~HasRaw)
    => NoiseStripped(NoiseStripped(call.a)) = NoiseStripped(call.a)

\* The noise-stripped form of a base name (spec 4.3): its bracket groups, the
\* z-lib branding and the trailing periods and open parentheses removed
StrippedForm(s) == StripNoise(Strip(RemoveSeries(s), Whitespace))

\* C13: when the noise-stripped form of the base name holds " by ", then for
\* every catalog extract_title_author returns a Resolved result whose title is
\* the trimmed text before the last " by " and whose author is the trimmed
\* text after it, whether or not the name holds " - ".
C13_ByPrecedence ==
    (/\ Returned("extract_title_author")
     /\ Contains(StrippedForm(call.a), STR_by))
    => /\ call.exc = "none"
       /\ call.val.error = "PROCESSING"
       /\ call.val.title
            = Strip(Take(StrippedForm(call.a),
                         RFind(StrippedForm(call.a), STR_by) - 1), Whitespace)
       /\ call.val.author
            = Strip(Drop(StrippedForm(call.a),
                         RFind(StrippedForm(call.a), STR_by) + 3), Whitespace)

\* The places in steps where process_book invoked op
StepsOf(op) == {i \in 1..Len(steps) : steps[i].op = op}

\* C14: process_book returns 0 when the run failed and the Calibre entry id,
\* a positive integer, only when the new format was stored; it never returns
\* a negative value.
C14_ReturnValue ==
    (/\ Returned("process_book")
     /\ call.exc = "none")
    => /\ call.val >= 0
       /\ call.val > 0 => (call.val = frame.id /\ StepsOf("remove") # {})

\* C15: add_book is invoked at most once and only after matching_book
\* reported id 0; once process_book is over, the original file has been moved
\* exactly when the run reached the conversion step; add_format is invoked
\* only after that move and only when convert_res is CONVERSION_SUCCESSFUL.
C15_StepOrdering ==
    call.op = "process_book"
    => /\ Cardinality(StepsOf("add_book")) <= 1
       /\ \A i \in StepsOf("add_book") :
             /\ steps[i].id = 0
             /\ \E j \in StepsOf("matching_book") : j < i
       /\ pc = "done" => (StepsOf("rename") # {} <=> StepsOf("convert_book") # {})
       /\ \A i \in StepsOf("convert_book") :
             \A j \in StepsOf("rename") : i < j
       /\ \A i \in StepsOf("add_format") :
             /\ steps[i].res = "CONVERSION_SUCCESSFUL"
             /\ \E j \in StepsOf("rename") : j < i

\* A run that added the book, converted it, moved the file and stored the
\* new format is over.
C15_Witness ==
    /\ Returned("process_book")
    /\ StepsOf("add_book") # {}
    /\ StepsOf("rename") # {}
    /\ StepsOf("add_format") # {}
    /\ call.exc = "none"
    /\ call.val > 0

====
